---- MODULE Spec2Model ----
(***************************************************************************)
(* State-machine model of the instanced renderer: RenderData and its      *)
(* per-model instance buffers (common/render.rs), the draw loop           *)
(* (common/model.rs), Model::load and the texture cache it consults, and  *)
(* the older DrawModels / Model::load of src/model.rs.                    *)
(***************************************************************************)
EXTENDS Integers, Sequences, FiniteSets, TLC

VARIABLES
    models,         \* RenderData.models : Vec<InstancedModel>
    allocs,         \* per model: number of create_buffer_init calls made for its instance buffer
    last_sync,      \* per model: what the last update_instance_buffers call did to it
    script_pos,     \* per model: how far the update calls so far follow CountScript (-1: they do not)
    render_pass,    \* commands recorded by draw_models in the current render pass
    texture_fs,     \* the texture paths that name a readable, decodable image file
    texture_atlas,  \* TextureAtlas: cached path -> shared texture handle
    texture_uploads,\* per path: how many times its image was decoded and uploaded
    load_file,      \* argument of the last Model::load call (None before the first)
    load_result,    \* what the last Model::load call returned (None before the first)
    legacy_models,  \* src/model.rs: FxHashMap<Arc<Model>, Instances>, keyed by model name
    legacy_pass,    \* src/model.rs: what its draw_models did, in order, in the current pass
    compared,       \* the last comparison of two Models: operands, ==, and their hashes
    frame,          \* the frame loop: control flow, surface size, configure calls, frames run
    camera,         \* the Camera
    mouse_diff,     \* input state: cursor position minus window centre, <<x, y>>
    time_delta,     \* Time.delta: duration of the last frame, in milliseconds
    clip            \* the last point pushed through a camera matrix, and the result

render_vars == <<models, allocs, last_sync, script_pos, render_pass>>
load_vars == <<texture_fs, texture_atlas, texture_uploads, load_file, load_result>>
legacy_vars == <<legacy_models, legacy_pass>>
scene_vars == <<render_vars, load_vars, legacy_vars>>
camera_vars == <<camera, mouse_diff, time_delta, clip>>
app_vars == <<compared, frame, camera_vars>>
vars == <<scene_vars, app_vars>>

(***************************************************************************)
(* Bounds                                                                  *)
(***************************************************************************)
\* time stamps the application logic may use when it builds an instance list
MaxTime == 2
\* materials a model file defines at most, meshes it holds at most
MaxMaterials == 2
MaxMeshes == 2
\* textures the older Model::load may upload in all before the model stops loading
MaxUploads == 4

(***************************************************************************)
(* Program constants                                                       *)
(***************************************************************************)
\* the editor registers two models: vec![map.into(), cube.into()]
NumModels == 2
\* size_of::<RawInstance>() : a 4x4 matrix of f32
RawInstanceSize == 64

\* the instance counts the application logic chooses from for the instanced cube
InstanceCounts == {0, 2, 3, 10}
\* the sequence of per-frame instance counts of the buffer-growth scenario
CountScript == <<3, 3, 10, 10, 2>>

(***************************************************************************)
(* Option<T>                                                               *)
(***************************************************************************)
None == <<>>
Some(x) == <<x>>
IsSome(o) == Len(o) = 1
IsNone(o) == Len(o) = 0
Unwrap(o) == o[1]

(***************************************************************************)
(* ModelInstance and its raw encoding                                      *)
(***************************************************************************)
\* 4x4 matrices are sequences of four columns (cgmath is column-major)
MatMul(a, b) ==
    [j \in 1..4 |-> [i \in 1..4 |->
        a[1][i] * b[j][1] + a[2][i] * b[j][2] + a[3][i] * b[j][3] + a[4][i] * b[j][4]]]

FromTranslation(v) ==
    << <<1, 0, 0, 0>>, <<0, 1, 0, 0>>, <<0, 0, 1, 0>>, <<v[1], v[2], v[3], 1>> >>

\* slip of FromQuaternion: the diagonal is built from the squares of all four
\* components, which is the same matrix for unit quaternions only
FromQuaternionFromSquares(q) ==
    LET ss == q.s * q.s  xx == q.x * q.x  yy == q.y * q.y  zz == q.z * q.z
        xy2 == 2 * q.x * q.y  xz2 == 2 * q.x * q.z  yz2 == 2 * q.y * q.z
        sx2 == 2 * q.s * q.x  sy2 == 2 * q.s * q.y  sz2 == 2 * q.s * q.z
    IN  << <<ss + xx - yy - zz, xy2 + sz2, xz2 - sy2, 0>>,
           <<xy2 - sz2, ss - xx + yy - zz, yz2 + sx2, 0>>,
           <<xz2 + sy2, yz2 - sx2, ss - xx - yy + zz, 0>>,
           <<0, 0, 0, 1>> >>

\* Matrix4::from(Quaternion): q = [s, x, y, z]
FromQuaternion(q) ==
    LET x2 == q.x + q.x  y2 == q.y + q.y  z2 == q.z + q.z
        xx2 == x2 * q.x  xy2 == x2 * q.y  xz2 == x2 * q.z
        yy2 == y2 * q.y  yz2 == y2 * q.z  zz2 == z2 * q.z
        sy2 == y2 * q.s  sz2 == z2 * q.s  sx2 == x2 * q.s
    IN  << <<1 - yy2 - zz2, xy2 + sz2, xz2 - sy2, 0>>,
           <<xy2 - sz2, 1 - xx2 - zz2, yz2 + sx2, 0>>,
           <<xz2 + sy2, yz2 - sx2, 1 - xx2 - yy2, 0>>,
           <<0, 0, 0, 1>> >>

\* impl From<&ModelInstance> for InstanceRaw: translation * rotation
RawInstanceFrom(instance) ==
    MatMul(FromTranslation(instance.position), FromQuaternion(instance.rotation))

\* impl Default for ModelInstance
DefaultModelInstance ==
    [position |-> <<0, 0, 0>>, rotation |-> [s |-> 0, x |-> 0, y |-> 0, z |-> 0]]

\* the instance list the application logic builds: n instances laid out along x,
\* shifted in y by the time t, unrotated (from_angle_x(Deg(0.0)))
InstanceList(n, t) ==
    [i \in 1..n |-> [position |-> <<i - 1, t, 0>>,
                     rotation |-> [s |-> 1, x |-> 0, y |-> 0, z |-> 0]]]

RawInstances(instances) == [i \in 1..Len(instances) |-> RawInstanceFrom(instances[i])]

(***************************************************************************)
(* Graphics backend: buffers                                               *)
(***************************************************************************)
\* slip of CreateBufferInit: the buffer is given one spare slot
CreateBufferInitPadded(id, contents) ==
    [id |-> id, contents |-> contents \o <<RawInstanceFrom(DefaultModelInstance)>>]

\* device.create_buffer_init: a new buffer holding exactly `contents`
CreateBufferInit(id, contents) == [id |-> id, contents |-> contents]

BufferSize(buffer) == Len(buffer.contents) * RawInstanceSize

\* slip of WriteBuffer: the buffer is cut down to the data written
WriteBufferTruncating(buffer, data) == [buffer EXCEPT !.contents = data]

\* queue.write_buffer(buffer, offset 0, data): overwrites the first Len(data) slots
WriteBuffer(buffer, data) ==
    [buffer EXCEPT !.contents =
        data \o SubSeq(buffer.contents, Len(data) + 1, Len(buffer.contents))]

(***************************************************************************)
(* Texture cache                                                           *)
(***************************************************************************)
DefaultTexturePath == "default.png"
TexturePaths == {"default.png", "wood.png"}

\* Texture::from_path: decode the image and upload it; fails when the file is
\* missing or is no image.  The handle carries the serial of the upload.
TextureFromPath(path, fs, uploads) ==
    IF path \in fs
    THEN [ok |-> TRUE,
          texture |-> Some([path |-> path, serial |-> uploads[path] + 1]),
          uploads |-> [uploads EXCEPT ![path] = @ + 1]]
    ELSE [ok |-> FALSE, texture |-> None, uploads |-> uploads]

\* TextureAtlas::get: the cached handle, or load, insert and return it
AtlasGet(tex, path, fs) ==
    IF path \in DOMAIN tex.atlas
    THEN [ok |-> TRUE, texture |-> Some(tex.atlas[path]), tex |-> tex]
    ELSE LET made == TextureFromPath(path, fs, tex.uploads) IN
         IF made.ok
         THEN [ok |-> TRUE, texture |-> made.texture,
               tex |-> [atlas |-> (path :> Unwrap(made.texture)) @@ tex.atlas,
                        uploads |-> made.uploads]]
         ELSE [ok |-> FALSE, texture |-> None, tex |-> tex]

(***************************************************************************)
(* Model::load (common/model.rs)                                           *)
(***************************************************************************)
Min(a, b) == IF a <= b THEN a ELSE b
UnwrapOr(o, d) == IF IsSome(o) THEN Unwrap(o) ELSE d

\* slice.chunks(k).len()
Chunks(len, k) == (len + k - 1) \div k

\* device.create_bind_group over the texture's view and sampler
CreateBindGroup(texture) == [view |-> texture, sampler |-> texture]

\* slip of DiffuseTexturePath: a material without a diffuse texture asks for the
\* texture of the empty path
DiffuseTexturePathNoFallback(material) == UnwrapOr(material.diffuse_texture, "")

\* the texture path a file material is loaded with
DiffuseTexturePath(material) == UnwrapOr(material.diffuse_texture, DefaultTexturePath)

\* slip of OnTextureError: the failed material is left out and the load goes on
OnTextureErrorSkip(path, tex) ==
    [ok |-> TRUE, materials |-> <<>>, tex |-> tex, failed |-> Some(path)]

\* what the load does when the cache reports a failure for `path`
OnTextureError(path, tex) ==
    [ok |-> FALSE, materials |-> <<>>, tex |-> tex, failed |-> Some(path)]

\* the file's materials, one by one, stopping at the first failure
RECURSIVE LoadMaterials(_, _, _, _)
LoadMaterials(defs, k, tex, fs) ==
    IF k > Len(defs)
    THEN [ok |-> TRUE, materials |-> <<>>, tex |-> tex, failed |-> None]
    ELSE LET path == DiffuseTexturePath(defs[k])
             got == AtlasGet(tex, path, fs)
         IN  IF ~got.ok
             THEN OnTextureError(path, got.tex)
             ELSE LET rest == LoadMaterials(defs, k + 1, got.tex, fs)
                      material == [name |-> defs[k].name,
                                   diffuse |-> Unwrap(got.texture),
                                   normal |-> None,
                                   bind_group |-> CreateBindGroup(Unwrap(got.texture))]
                  IN  [rest EXCEPT !.materials = <<material>> \o @]

\* the single default material of a file that defines none
LoadDefaultMaterial(tex, fs) ==
    LET got == AtlasGet(tex, DefaultTexturePath, fs) IN
    IF ~got.ok
    THEN OnTextureError(DefaultTexturePath, got.tex)
    ELSE [ok |-> TRUE,
          materials |-> << [name |-> "default-material",
                            diffuse |-> Unwrap(got.texture),
                            normal |-> None,
                            bind_group |-> CreateBindGroup(Unwrap(got.texture))] >>,
          tex |-> got.tex, failed |-> None]

\* material_index of a mesh whose file material id is `material_id`
MaterialIndex(material_id, material_count) == UnwrapOr(material_id, 0)

\* the vertices zipped from the position, UV and normal streams
ZipVertices(mesh) ==
    Min(Min(Chunks(mesh.positions, 3), Chunks(mesh.texcoords, 2)), Chunks(mesh.normals, 3))

LoadMesh(mesh, material_count) ==
    [name |-> mesh.name,
     vertex_count |-> ZipVertices(mesh),
     indices_count |-> mesh.indices,
     material_index |-> MaterialIndex(mesh.material_id, material_count)]

\* Model::load: [ok, error, model, tex, failed]
Load(file, tex, fs) ==
    IF ~file.obj_ok
    THEN [ok |-> FALSE, error |-> "ObjLoadError", model |-> None, tex |-> tex, failed |-> None]
    ELSE IF IsNone(file.materials)
    THEN [ok |-> FALSE, error |-> "MtlLoadError", model |-> None, tex |-> tex, failed |-> None]
    ELSE LET defs == Unwrap(file.materials)
             mats == IF defs = <<>> THEN LoadDefaultMaterial(tex, fs)
                                   ELSE LoadMaterials(defs, 1, tex, fs)
         IN  IF ~mats.ok
             THEN [ok |-> FALSE, error |-> "TextureLoadError", model |-> None,
                   tex |-> mats.tex, failed |-> mats.failed]
             ELSE [ok |-> TRUE, error |-> "",
                   model |-> Some([name |-> file.name,
                                   meshes |-> [k \in 1..Len(file.meshes) |->
                                       LoadMesh(file.meshes[k], Len(mats.materials))],
                                   materials |-> mats.materials]),
                   tex |-> mats.tex, failed |-> None]

(***************************************************************************)
(* Model files (the parser's output, the input of Model::load)             *)
(***************************************************************************)
SeqsUpTo(S, n) == UNION {[1..k -> S] : k \in 0..n}

\* a file material: it names a diffuse texture or none
MaterialDefs ==
    {[name |-> "material", diffuse_texture |-> d] : d \in {None, Some("wood.png")}}

\* the material id of a sub-mesh: none, or the id of a second material
MaterialIds == {None, Some(1)}

\* a sub-mesh: float counts of the three streams, index count, optional material id.
\* Two vertices with full UVs and normals, or with a normal for the first vertex only.
MeshDefs ==
    {[name |-> "mesh", positions |-> 6, texcoords |-> 4, normals |-> 6, indices |-> 3,
      material_id |-> id] : id \in MaterialIds}
    \cup {[name |-> "mesh", positions |-> 6, texcoords |-> 4, normals |-> 3, indices |-> 3,
           material_id |-> None]}

ModelFile(name, materials, meshes) ==
    [name |-> name, obj_ok |-> TRUE, materials |-> materials, meshes |-> meshes]

\* a file the parser rejects
BrokenObj == [name |-> "broken.obj", obj_ok |-> FALSE, materials |-> None, meshes |-> <<>>]

\* materials: Err (the material library failed to load) or Ok(list)
ModelFiles ==
    {ModelFile("model.obj", mats, meshes) :
        mats \in {None} \cup {Some(l) : l \in SeqsUpTo(MaterialDefs, MaxMaterials)},
        meshes \in SeqsUpTo(MeshDefs, MaxMeshes) \ {<<>>}}
    \cup {BrokenObj}

\* the editor's scene: a map of two meshes whose two materials share a
\* texture, a cube of one mesh whose material names no texture
MapObj ==
    ModelFile("map.obj",
        Some(<<[name |-> "ground", diffuse_texture |-> Some("wood.png")],
               [name |-> "walls", diffuse_texture |-> Some("wood.png")]>>),
        <<[name |-> "ground", positions |-> 6, texcoords |-> 4, normals |-> 6, indices |-> 3,
           material_id |-> Some(0)],
          [name |-> "walls", positions |-> 6, texcoords |-> 4, normals |-> 6, indices |-> 3,
           material_id |-> Some(1)]>>)

CubeObj ==
    ModelFile("cube.obj", Some(<<[name |-> "cube", diffuse_texture |-> None]>>),
        <<[name |-> "cube", positions |-> 6, texcoords |-> 4, normals |-> 6, indices |-> 3,
           material_id |-> Some(0)]>>)

(***************************************************************************)
(* RenderData (common/render.rs)                                           *)
(***************************************************************************)
\* impl From<Model> for InstancedModel
InstancedModelFrom(model) == [model |-> model, instances |-> None, instance_buffer |-> None]

\* RenderData::new: the buffer holding the one default instance
SingleInstanceBuffer == CreateBufferInit(<<0, 0>>, <<RawInstanceFrom(DefaultModelInstance)>>)

\* slips of NeedsRealloc: a new buffer whenever the count differs / on every update
NeedsReallocOnChange(next_len, current_len) == next_len # current_len
NeedsReallocAlways(next_len, current_len) == TRUE

\* the test that decides between a new buffer and an in-place write
NeedsRealloc(next_len, current_len) == next_len > current_len

\* slip of UpdateModel: a missing list is synchronised like an empty one
UpdateModelNoSkip(im, id) ==
    LET data == IF IsSome(im.instances) THEN RawInstances(Unwrap(im.instances)) ELSE <<>> IN
    IF IsSome(im.instance_buffer)
    THEN IF NeedsRealloc(Len(data), BufferSize(Unwrap(im.instance_buffer)) \div RawInstanceSize)
         THEN [model |-> [im EXCEPT !.instance_buffer = Some(CreateBufferInit(id, data))],
               op |-> "grow"]
         ELSE [model |-> [im EXCEPT !.instance_buffer =
                              Some(WriteBuffer(Unwrap(im.instance_buffer), data))],
               op |-> "write"]
    ELSE [model |-> [im EXCEPT !.instance_buffer = Some(CreateBufferInit(id, data))],
          op |-> "create"]

\* slip of UpdateModel: a model without a list gives its buffer up
UpdateModelDropStale(im, id) ==
    IF IsNone(im.instances)
    THEN [model |-> [im EXCEPT !.instance_buffer = None], op |-> "skip"]
    ELSE UpdateModelNoSkip(im, id)

\* one iteration of update_instance_buffers; `id` names a buffer it may create
UpdateModel(im, id) ==
    IF IsNone(im.instances)
    THEN [model |-> im, op |-> "skip"]
    ELSE LET data == RawInstances(Unwrap(im.instances)) IN
         IF IsSome(im.instance_buffer)
         THEN LET buffer == Unwrap(im.instance_buffer)
                  current_instance_buffer_len == BufferSize(buffer) \div RawInstanceSize
                  next_instance_buffer_len == Len(Unwrap(im.instances))
              IN  IF NeedsRealloc(next_instance_buffer_len, current_instance_buffer_len)
                  THEN [model |-> [im EXCEPT !.instance_buffer =
                                       Some(CreateBufferInit(id, data))],
                        op |-> "grow"]
                  ELSE [model |-> [im EXCEPT !.instance_buffer =
                                       Some(WriteBuffer(buffer, data))],
                        op |-> "write"]
         ELSE [model |-> [im EXCEPT !.instance_buffer = Some(CreateBufferInit(id, data))],
               op |-> "create"]

\* capacity of a model's instance buffer in instance slots (0 without a buffer)
Capacity(im) ==
    IF IsSome(im.instance_buffer)
    THEN BufferSize(Unwrap(im.instance_buffer)) \div RawInstanceSize
    ELSE 0

\* position in CountScript after an update call that saw `instances`
NextScriptPos(pos, instances) ==
    IF /\ pos >= 0
       /\ pos < Len(CountScript)
       /\ IsSome(instances)
       /\ Len(Unwrap(instances)) = CountScript[pos + 1]
    THEN pos + 1
    ELSE -1

(***************************************************************************)
(* DrawModels::draw_models (common/model.rs)                               *)
(***************************************************************************)
Command(cmd, model, mesh, arg) == [cmd |-> cmd, model |-> model, mesh |-> mesh, arg |-> arg]

\* the buffer bound at vertex slot 1 for an InstancedModel
InstanceSlotBuffer(im) ==
    IF IsSome(im.instance_buffer) THEN Unwrap(im.instance_buffer) ELSE SingleInstanceBuffer

\* slip of InstanceRange: no fallback instance for a model without a list
InstanceRangeNoFallback(im) ==
    IF IsSome(im.instances) THEN <<0, Len(Unwrap(im.instances))>> ELSE <<0, 0>>

\* slip of InstanceRange: the range of a list ends one instance late
InstanceRangeInclusive(im) ==
    IF IsSome(im.instances) THEN <<0, Len(Unwrap(im.instances)) + 1>> ELSE <<0, 1>>

\* the instance range of an InstancedModel's draws
InstanceRange(im) ==
    IF IsSome(im.instances) THEN <<0, Len(Unwrap(im.instances))>> ELSE <<0, 1>>

\* materials[mesh.material_index] is out of bounds for some mesh
DrawPanics(model) ==
    \E k \in 1..Len(model.meshes) : model.meshes[k].material_index >= Len(model.materials)

RECURSIVE MeshCommands(_, _, _)
MeshCommands(im, m, k) ==
    IF k > Len(im.model.meshes)
    THEN <<>>
    ELSE LET mesh == im.model.meshes[k] IN
         << Command("set_bind_group", m, k,
                [index |-> 0,
                 bind_group |-> im.model.materials[mesh.material_index + 1].bind_group]),
            Command("set_vertex_buffer", m, k, [slot |-> 0, buffer |-> <<"vertex", m, k>>]),
            Command("set_index_buffer", m, k, [buffer |-> <<"index", m, k>>]),
            Command("draw_indexed", m, k,
                [indices |-> <<0, mesh.indices_count>>, base_vertex |-> 0,
                 instances |-> InstanceRange(im)]) >>
         \o MeshCommands(im, m, k + 1)

RECURSIVE DrawCommands(_, _)
\* slip of DrawCommands: the instance buffer is bound after the meshes are drawn
DrawCommandsBindLast(ms, m) ==
    IF m > Len(ms)
    THEN <<>>
    ELSE MeshCommands(ms[m], m, 1)
         \o << Command("set_vertex_buffer", m, 0,
                   [slot |-> 1, buffer |-> InstanceSlotBuffer(ms[m])]) >>
         \o DrawCommands(ms, m + 1)

DrawCommands(ms, m) ==
    IF m > Len(ms)
    THEN <<>>
    ELSE << Command("set_vertex_buffer", m, 0,
                [slot |-> 1, buffer |-> InstanceSlotBuffer(ms[m])]) >>
         \o MeshCommands(ms[m], m, 1)
         \o DrawCommands(ms, m + 1)

(***************************************************************************)
(* The editor's RenderData: state after State::new, and its operations     *)
(***************************************************************************)
NoTextures == [atlas |-> <<>>, uploads |-> [p \in TexturePaths |-> 0]]

\* State::new loads cube.obj, then map.obj, and unwraps both
CubeLoad == Load(CubeObj, NoTextures, TexturePaths)
MapLoad == Load(MapObj, CubeLoad.tex, TexturePaths)

LoadOutcome(r) == [ok |-> r.ok, error |-> r.error, model |-> r.model, failed |-> r.failed]

NoLegacy ==
    /\ legacy_models = <<>>
    /\ legacy_pass = <<>>

\* nothing compared, no frame run, no camera built
NoApp ==
    /\ compared = None
    /\ frame = None
    /\ camera = None
    /\ mouse_diff = None
    /\ time_delta = None
    /\ clip = None

\* the scene State::new builds: the map and the cube registered, their textures cached
EditorScene ==
    /\ models = << InstancedModelFrom(Unwrap(MapLoad.model)),
                   InstancedModelFrom(Unwrap(CubeLoad.model)) >>
    /\ allocs = [m \in 1..NumModels |-> 0]
    /\ last_sync = [m \in 1..NumModels |-> "none"]
    /\ script_pos = [m \in 1..NumModels |-> 0]
    /\ render_pass = <<>>
    /\ texture_fs = TexturePaths
    /\ texture_atlas = MapLoad.tex.atlas
    /\ texture_uploads = MapLoad.tex.uploads
    /\ load_file = Some(MapObj)
    /\ load_result = Some(LoadOutcome(MapLoad))
    /\ NoLegacy

Init ==
    /\ EditorScene
    /\ NoApp

\* the application logic assigns a model's instance list (a pub field)
SetInstances(m, instances) ==
    /\ models[m].instances # instances
    /\ models' = [models EXCEPT ![m].instances = instances]
    /\ last_sync' = [last_sync EXCEPT ![m] = "changed"]
    /\ render_pass' = <<>>
    /\ UNCHANGED <<allocs, script_pos, load_vars, legacy_vars, app_vars>>

\* RenderData::update_instance_buffers: the whole loop over the models
UpdateInstanceBuffers ==
    LET done == [m \in 1..Len(models) |-> UpdateModel(models[m], <<m, allocs[m] + 1>>)] IN
    /\ models' = [m \in 1..Len(models) |-> done[m].model]
    /\ last_sync' = [m \in 1..Len(models) |-> done[m].op]
    /\ allocs' = [m \in 1..Len(models) |->
                    IF done[m].op \in {"create", "grow"} THEN allocs[m] + 1 ELSE allocs[m]]
    /\ script_pos' = [m \in 1..Len(models) |->
                        NextScriptPos(script_pos[m], models[m].instances)]
    /\ render_pass' = <<>>
    /\ UNCHANGED <<load_vars, legacy_vars, app_vars>>

\* draw_models inside a render pass; the pass ends with render()
DrawModels ==
    /\ \A m \in 1..Len(models) : ~DrawPanics(models[m].model)
    /\ render_pass' = DrawCommands(models, 1)
    /\ UNCHANGED <<models, allocs, last_sync, script_pos, load_vars, legacy_vars, app_vars>>

\* what the application logic may assign: the map (model 1) is a singleton model
\* that has no list or one fixed pair of instances, the cube (model 2) is instanced
InstanceInputs(m) ==
    IF m = 1
    THEN {None, Some(InstanceList(2, 1))}
    ELSE {None} \cup {Some(InstanceList(n, t)) : n \in InstanceCounts, t \in 1..MaxTime}

Next ==
    \/ \E m \in 1..NumModels : \E i \in InstanceInputs(m) : SetInstances(m, i)
    \/ UpdateInstanceBuffers
    \/ DrawModels

Spec == Init /\ [][Next]_vars

(***************************************************************************)
(* Model::load as an operation: any file, any set of readable textures     *)
(***************************************************************************)
\* RenderData::new and TextureAtlas::new: nothing registered, nothing cached
InitLoad ==
    /\ models = <<>>
    /\ allocs = <<>>
    /\ last_sync = <<>>
    /\ script_pos = <<>>
    /\ render_pass = <<>>
    /\ texture_fs \in SUBSET TexturePaths
    /\ texture_atlas = <<>>
    /\ texture_uploads = [p \in TexturePaths |-> 0]
    /\ load_file = None
    /\ load_result = None
    /\ NoLegacy
    /\ NoApp

\* Model::load(file, &mut texture_atlas, ..)
LoadModel(file) ==
    LET r == Load(file, [atlas |-> texture_atlas, uploads |-> texture_uploads], texture_fs) IN
    /\ texture_atlas' = r.tex.atlas
    /\ texture_uploads' = r.tex.uploads
    /\ load_file' = Some(file)
    /\ load_result' = Some(LoadOutcome(r))
    /\ UNCHANGED <<texture_fs, render_vars, legacy_vars, app_vars>>

NextLoad == \E file \in ModelFiles : LoadModel(file)

LoadSpec == InitLoad /\ [][NextLoad]_vars

(***************************************************************************)
(* The older Model::load and draw_models (src/model.rs)                    *)
(***************************************************************************)
\* the file's materials, each texture loaded with Texture::from_path
RECURSIVE LegacyLoadMaterials(_, _, _, _)
LegacyLoadMaterials(defs, k, uploads, fs) ==
    IF k > Len(defs)
    THEN [ok |-> TRUE, materials |-> <<>>, uploads |-> uploads, failed |-> None]
    ELSE LET path == DiffuseTexturePath(defs[k])
             made == TextureFromPath(path, fs, uploads)
         IN  IF ~made.ok
             THEN [ok |-> FALSE, materials |-> <<>>, uploads |-> made.uploads,
                   failed |-> Some(path)]
             ELSE LET rest == LegacyLoadMaterials(defs, k + 1, made.uploads, fs)
                      material == [name |-> defs[k].name,
                                   diffuse_texture |-> Unwrap(made.texture),
                                   bind_group |-> CreateBindGroup(Unwrap(made.texture))]
                  IN  [rest EXCEPT !.materials = <<material>> \o @]

\* Model::load of src/model.rs: [ok, error, model, uploads, failed]
LegacyLoad(file, uploads, fs) ==
    IF ~file.obj_ok
    THEN [ok |-> FALSE, error |-> "ObjLoadError", model |-> None, uploads |-> uploads,
          failed |-> None]
    ELSE IF IsNone(file.materials)
    THEN [ok |-> FALSE, error |-> "MtlLoadError", model |-> None, uploads |-> uploads,
          failed |-> None]
    ELSE LET mats == LegacyLoadMaterials(Unwrap(file.materials), 1, uploads, fs) IN
         IF ~mats.ok
         THEN [ok |-> FALSE, error |-> "TextureLoadError", model |-> None,
               uploads |-> mats.uploads, failed |-> mats.failed]
         ELSE [ok |-> TRUE, error |-> "",
               model |-> Some([name |-> file.name,
                               meshes |-> [k \in 1..Len(file.meshes) |->
                                   LoadMesh(file.meshes[k], Len(mats.materials))],
                               materials |-> mats.materials]),
               uploads |-> mats.uploads, failed |-> None]

\* #[derive(Default)] struct Instances
DefaultInstances == [model_instances |-> <<>>, instance_buffer |-> None]

\* the buffer synchronisation at the head of each iteration of draw_models:
\* [instances, log]
LegacySync(name, instances) ==
    LET data == RawInstances(instances.model_instances) IN
    IF IsSome(instances.instance_buffer)
    THEN LET buffer == Unwrap(instances.instance_buffer)
             current_instance_buffer_len == BufferSize(buffer) \div RawInstanceSize
             next_instance_buffer_len == Len(instances.model_instances)
         IN  IF next_instance_buffer_len > current_instance_buffer_len
             THEN LET new == CreateBufferInit(<<name, buffer.id[2] + 1>>, data) IN
                  [instances |-> [instances EXCEPT !.instance_buffer = Some(new)],
                   log |-> <<Command("create_buffer_init", name, 0, [buffer |-> new])>>]
             ELSE LET new == WriteBuffer(buffer, data) IN
                  [instances |-> [instances EXCEPT !.instance_buffer = Some(new)],
                   log |-> <<Command("write_buffer", name, 0, [buffer |-> new])>>]
    ELSE LET new == CreateBufferInit(<<name, 1>>, data) IN
         [instances |-> [instances EXCEPT !.instance_buffer = Some(new)],
          log |-> <<Command("create_buffer_init", name, 0, [buffer |-> new])>>]

RECURSIVE LegacyMeshCommands(_, _, _, _)
LegacyMeshCommands(model, instances, name, k) ==
    IF k > Len(model.meshes)
    THEN <<>>
    ELSE LET mesh == model.meshes[k] IN
         << Command("set_bind_group", name, k,
                [index |-> 0,
                 bind_group |-> model.materials[mesh.material_index + 1].bind_group]),
            Command("set_vertex_buffer", name, k,
                [slot |-> 0, buffer |-> <<"vertex", name, k>>]),
            Command("set_index_buffer", name, k, [buffer |-> <<"index", name, k>>]),
            Command("draw_indexed", name, k,
                [indices |-> <<0, mesh.indices_count>>, base_vertex |-> 0,
                 instances |-> <<0, Len(instances.model_instances)>>]) >>
         \o LegacyMeshCommands(model, instances, name, k + 1)

\* one iteration of draw_models for the entry `name`: [entry, log]
LegacyDrawOne(entry, name) ==
    LET synced == LegacySync(name, entry.instances) IN
    [entry |-> [entry EXCEPT !.instances = synced.instances],
     log |-> synced.log
             \o << Command("set_vertex_buffer", name, 0,
                       [slot |-> 1, buffer |-> Unwrap(synced.instances.instance_buffer)]) >>
             \o LegacyMeshCommands(entry.model, synced.instances, name, 1)]

\* the log of draw_models over the entries in the order `order`
RECURSIVE LegacyDrawLog(_, _, _)
LegacyDrawLog(entries, order, i) ==
    IF i > Len(order)
    THEN <<>>
    ELSE LegacyDrawOne(entries[order[i]], order[i]).log \o LegacyDrawLog(entries, order, i + 1)

\* the orders in which a hash map may hand out the keys `S`
Orders(S) == {o \in [1..Cardinality(S) -> S] : \A i, j \in DOMAIN o : i # j => o[i] # o[j]}

\* the files the older load is given
LegacyFiles == {MapObj, CubeObj}

InitLegacy ==
    /\ models = <<>>
    /\ allocs = <<>>
    /\ last_sync = <<>>
    /\ script_pos = <<>>
    /\ render_pass = <<>>
    /\ texture_fs = TexturePaths
    /\ texture_atlas = <<>>
    /\ texture_uploads = [p \in TexturePaths |-> 0]
    /\ load_file = None
    /\ load_result = None
    /\ NoLegacy
    /\ NoApp

\* Model::load(path, device, queue, layout) of src/model.rs
LegacyLoadModel(file) ==
    LET r == LegacyLoad(file, texture_uploads, texture_fs) IN
    /\ texture_uploads["default.png"] + texture_uploads["wood.png"] < MaxUploads
    /\ texture_uploads' = r.uploads
    /\ load_file' = Some(file)
    /\ load_result' = Some(LoadOutcome(r))
    /\ legacy_pass' = <<>>
    /\ UNCHANGED <<texture_fs, texture_atlas, legacy_models, render_vars, app_vars>>

\* the caller moves the loaded model into the map, with no instances yet
LegacyInsert ==
    /\ IsSome(load_result)
    /\ Unwrap(load_result).ok
    /\ LET model == Unwrap(Unwrap(load_result).model) IN
       /\ model.name \notin DOMAIN legacy_models
       /\ legacy_models' =
              (model.name :> [model |-> model, instances |-> DefaultInstances])
              @@ legacy_models
    /\ load_result' = None
    /\ load_file' = None
    /\ legacy_pass' = <<>>
    /\ UNCHANGED <<texture_fs, texture_atlas, texture_uploads, render_vars, app_vars>>

\* the caller replaces the instances of a model
LegacySetInstances(name, list) ==
    /\ name \in DOMAIN legacy_models
    /\ legacy_models[name].instances.model_instances # list
    /\ legacy_models' = [legacy_models EXCEPT ![name].instances.model_instances = list]
    /\ legacy_pass' = <<>>
    /\ UNCHANGED <<load_vars, render_vars, app_vars>>

\* draw_models(models, device, queue) of src/model.rs: the whole loop
LegacyDrawModels ==
    /\ DOMAIN legacy_models # {}
    /\ \A name \in DOMAIN legacy_models : ~DrawPanics(legacy_models[name].model)
    /\ \E order \in Orders(DOMAIN legacy_models) :
          /\ legacy_pass' = LegacyDrawLog(legacy_models, order, 1)
          /\ legacy_models' = [name \in DOMAIN legacy_models |->
                                  LegacyDrawOne(legacy_models[name], name).entry]
    /\ UNCHANGED <<load_vars, render_vars, app_vars>>

LegacyInstanceInputs == {InstanceList(n, 1) : n \in {0, 2, 3}}

NextLegacy ==
    \/ \E file \in LegacyFiles : LegacyLoadModel(file)
    \/ LegacyInsert
    \/ \E name \in {"map.obj", "cube.obj"}, list \in LegacyInstanceInputs :
          LegacySetInstances(name, list)
    \/ LegacyDrawModels

LegacySpec == InitLegacy /\ [][NextLegacy]_vars

(***************************************************************************)
(* Properties of the instance buffers and the draw loop                    *)
(***************************************************************************)
\* the draw_indexed commands the pass holds for model m, in order
DrawsOf(pass, m) ==
    LET IsDraw(c) == c.cmd = "draw_indexed" /\ c.model = m IN SelectSeq(pass, IsDraw)

\* the buffer the pass binds at vertex slot 1 for model m
InstanceBindingsOf(pass, m) ==
    LET IsBinding(c) == c.cmd = "set_vertex_buffer" /\ c.model = m /\ c.mesh = 0
    IN  SelectSeq(pass, IsBinding)

IsEmptyList(o) == IsSome(o) /\ Unwrap(o) = <<>>

\* allocations made so far, and the operation done, after the k-th call of CountScript
ScriptAllocs == <<1, 1, 2, 2, 2>>
ScriptOps == <<"create", "write", "grow", "write", "write">>

\* C1: when the update calls made for a model so far saw the instance counts
\* 3, 3, 10, 10, 2 (or a prefix of them), starting without a buffer, the buffer was
\* created at the first 3, replaced at the jump to 10 and written in place at the
\* other calls: two allocations in total, and the buffer is the last one allocated.
C1_ScriptAllocatesTwice ==
    \A m \in 1..NumModels :
        script_pos[m] >= 1 =>
            /\ allocs[m] = ScriptAllocs[script_pos[m]]
            /\ last_sync[m] \in {ScriptOps[script_pos[m]], "changed"}
            /\ IsSome(models[m].instance_buffer)
            /\ Unwrap(models[m].instance_buffer).id = <<m, allocs[m]>>
            /\ (script_pos[m] = Len(CountScript) => allocs[m] = 2)

C1_ScriptDone == \E m \in 1..NumModels : script_pos[m] = Len(CountScript)

\* C2: no step lowers the capacity of a model's instance buffer or takes the
\* buffer away, whatever the instance list is set to.
C2_CapacityNeverDecreases ==
    [][\A m \in 1..NumModels :
          /\ Capacity(models'[m]) >= Capacity(models[m])
          /\ (IsSome(models[m].instance_buffer) => IsSome(models'[m].instance_buffer))]_vars

C2_WrittenBelowCapacity ==
    \E m \in 1..NumModels :
        /\ last_sync[m] = "write"
        /\ Len(Unwrap(models[m].instances)) < Capacity(models[m])

C4_NoInstancesDrawnOncePerMesh ==
    \A m \in 1..NumModels :
        (IsNone(models[m].instances) /\ render_pass # <<>>) =>
            LET draws == DrawsOf(render_pass, m) IN
            /\ Len(draws) = Len(models[m].model.meshes)
            /\ Len(draws) >= 1
            /\ \A k \in 1..Len(draws) :
                  /\ draws[k].mesh = k
                  /\ draws[k].arg.instances = <<0, 1>>
                  /\ draws[k].arg.indices = <<0, models[m].model.meshes[k].indices_count>>

C4_TwoMeshModelDrawn ==
    \E m \in 1..NumModels :
        /\ IsNone(models[m].instances)
        /\ Len(models[m].model.meshes) = 2
        /\ Len(DrawsOf(render_pass, m)) = 2

(***************************************************************************)
(* Properties of the frame order, the texture cache and Model::load        *)
(***************************************************************************)
SyncCommands == {"create_buffer_init", "write_buffer"}

\* C5: nothing recorded while draw_models runs creates, replaces or writes an
\* instance buffer: every buffer synchronisation of the frame is over before the
\* first command of draw_models.
C5_NoSyncWhileDrawing ==
    /\ \A i \in DOMAIN render_pass : render_pass[i].cmd \notin SyncCommands
    /\ \A i \in DOMAIN legacy_pass : legacy_pass[i].cmd \notin SyncCommands

\* C6: the image of a path is decoded and uploaded at most once, however many
\* materials of however many models name it.
C6_OneUploadPerPath == \A p \in TexturePaths : texture_uploads[p] <= 1

\* the texture paths the load of `file` asks for
RequiredTextures(file) ==
    IF Unwrap(file.materials) = <<>>
    THEN {DefaultTexturePath}
    ELSE {DiffuseTexturePath(Unwrap(file.materials)[k]) :
              k \in 1..Len(Unwrap(file.materials))}

\* C7: a load that needs a texture which cannot be read returns an error and no
\* Model, names that texture as the failure, and leaves no cache entry for it;
\* the cache never holds an entry for an unreadable path.
C7_TextureErrorFailsLoad ==
    /\ DOMAIN texture_atlas \subseteq texture_fs
    /\ IsSome(load_result) =>
          LET file == Unwrap(load_file)
              r == Unwrap(load_result)
          IN  /\ (/\ file.obj_ok
                  /\ IsSome(file.materials)
                  /\ RequiredTextures(file) \ texture_fs # {}) =>
                    /\ ~r.ok
                    /\ IsNone(r.model)
                    /\ r.error = "TextureLoadError"
                    /\ IsSome(r.failed)
                    /\ Unwrap(r.failed) \in RequiredTextures(file) \ texture_fs
                    /\ Unwrap(r.failed) \notin DOMAIN texture_atlas
              /\ IsSome(r.failed) => ~r.ok

C7_FailedAfterCachedTexture ==
    /\ IsSome(load_result)
    /\ IsSome(Unwrap(load_result).failed)
    /\ Unwrap(load_result).error = "TextureLoadError"
    /\ DOMAIN texture_atlas # {}
    /\ Len(Unwrap(Unwrap(load_file).materials)) = 2

\* C8: every mesh of a loaded Model has material_index < materials.len(), a file
\* material id that is not below the material count becomes index 0, and so
\* draw_models cannot index past the materials.
C8_MaterialIndexInRange ==
    (IsSome(load_result) /\ Unwrap(load_result).ok) =>
        LET file == Unwrap(load_file)
            model == Unwrap(Unwrap(load_result).model)
        IN  /\ \A k \in 1..Len(model.meshes) :
                  /\ model.meshes[k].material_index < Len(model.materials)
                  /\ (/\ IsSome(file.meshes[k].material_id)
                      /\ Unwrap(file.meshes[k].material_id) >= Len(model.materials)) =>
                        model.meshes[k].material_index = 0
            /\ ~DrawPanics(model)

\* C9: a Model loaded from a file without materials has exactly one Material, the
\* default one bound to default.png, and every mesh has material_index 0.
C9_ZeroMaterialsDefault ==
    (/\ IsSome(load_result)
     /\ Unwrap(load_result).ok
     /\ Unwrap(load_file).materials = Some(<<>>)) =>
        LET model == Unwrap(Unwrap(load_result).model) IN
        /\ Len(model.materials) = 1
        /\ model.materials[1].name = "default-material"
        /\ model.materials[1].diffuse.path = DefaultTexturePath
        /\ \A k \in 1..Len(model.meshes) : model.meshes[k].material_index = 0

\* the three streams of a mesh describe the same number of vertices
ConsistentStreams(mesh) ==
    /\ Chunks(mesh.positions, 3) = Chunks(mesh.texcoords, 2)
    /\ Chunks(mesh.positions, 3) = Chunks(mesh.normals, 3)

\* C10: a load of a file with a mesh whose streams disagree on the vertex count
\* fails and returns no Model, and no loaded mesh has fewer vertices than its
\* file has positions.
C10_InconsistentStreamsFail ==
    IsSome(load_result) =>
        LET file == Unwrap(load_file)
            r == Unwrap(load_result)
        IN  /\ (\E k \in 1..Len(file.meshes) : ~ConsistentStreams(file.meshes[k])) =>
                  ~r.ok /\ IsNone(r.model)
            /\ r.ok => \A k \in 1..Len(file.meshes) :
                  Unwrap(r.model).meshes[k].vertex_count = Chunks(file.meshes[k].positions, 3)

\* the materials of the file, when Model::load gets as far as loading them
FileMaterials(file) ==
    IF file.obj_ok /\ IsSome(file.materials) THEN Unwrap(file.materials) ELSE <<>>

\* the texture paths a file's materials ask for, a material without a diffuse
\* texture counted as asking for default.png
NamedOrFallbackPaths(file) ==
    {IF IsSome(FileMaterials(file)[k].diffuse_texture)
     THEN Unwrap(FileMaterials(file)[k].diffuse_texture)
     ELSE "default.png" : k \in 1..Len(FileMaterials(file))}

\* C11: a material that names no diffuse texture is no error of its own: when
\* the textures the file names and default.png are readable, the load succeeds,
\* every material without a diffuse texture is bound to the default.png texture
\* of the cache (same handle in the material and in its bind group), and every
\* other material is bound to the texture it names.
C11_MissingDiffuseFallsBack ==
    IsSome(load_result) =>
        LET file == Unwrap(load_file)
            r == Unwrap(load_result)
            defs == FileMaterials(file)
        IN  (defs # <<>> /\ NamedOrFallbackPaths(file) \subseteq texture_fs) =>
                /\ r.ok
                /\ IsSome(r.model)
                /\ Len(Unwrap(r.model).materials) = Len(defs)
                /\ \A k \in 1..Len(defs) :
                      LET material == Unwrap(r.model).materials[k]
                          path == IF IsSome(defs[k].diffuse_texture)
                                  THEN Unwrap(defs[k].diffuse_texture)
                                  ELSE "default.png"
                      IN  /\ material.diffuse.path = path
                          /\ material.diffuse = texture_atlas[path]
                          /\ material.bind_group.view = material.diffuse
                          /\ material.name = defs[k].name

C11_LoadedWithFallbackAndNamed ==
    /\ IsSome(load_result)
    /\ Unwrap(load_result).ok
    /\ \E j, k \in 1..Len(FileMaterials(Unwrap(load_file))) :
          /\ IsNone(FileMaterials(Unwrap(load_file))[j].diffuse_texture)
          /\ IsSome(FileMaterials(Unwrap(load_file))[k].diffuse_texture)
          /\ Unwrap(Unwrap(load_result).model).materials[j].diffuse.path = "default.png"

(***************************************************************************)
(* Model identity: impl Hash / PartialEq / Eq for Model                    *)
(***************************************************************************)
\* no model registered or loaded, no texture cached
NoScene ==
    /\ models = <<>>
    /\ allocs = <<>>
    /\ last_sync = <<>>
    /\ script_pos = <<>>
    /\ render_pass = <<>>
    /\ texture_fs = TexturePaths
    /\ texture_atlas = <<>>
    /\ texture_uploads = [p \in TexturePaths |-> 0]
    /\ load_file = None
    /\ load_result = None
    /\ NoLegacy

\* a Hasher is what was written to it; str::hash writes the bytes, then 0xff
HashStr(str, state) == state \o <<str, 255>>

\* impl Hash for Model
HashModel(model, state) == HashStr(model.name, state)

\* slip of ModelEq: the derived, field-by-field equality
ModelEqStructural(a, b) == a = b

\* impl PartialEq for Model
ModelEq(a, b) == a.name = b.name

\* a file of `material_count` materials without textures and `mesh_count` meshes
PlainFile(name, material_count, mesh_count) ==
    ModelFile(name,
        Some([k \in 1..material_count |-> [name |-> "material", diffuse_texture |-> None]]),
        [k \in 1..mesh_count |->
            [name |-> "mesh", positions |-> 6, texcoords |-> 4, normals |-> 6,
             indices |-> 3, material_id |-> None]])

\* the Models that are compared: two names, different materials and meshes
ModelNames == {"cube.obj", "map.obj"}
ComparedModels ==
    {Unwrap(Load(PlainFile(name, mats, meshes), NoTextures, TexturePaths).model) :
        name \in ModelNames, mats \in 0..MaxMaterials, meshes \in 1..MaxMeshes}

InitIdentity ==
    /\ NoScene
    /\ NoApp

\* a == b, and both models hashed with a fresh hasher
CompareModels(a, b) ==
    /\ compared' = Some([a |-> a, b |-> b, eq |-> ModelEq(a, b),
                         hash_a |-> HashModel(a, <<>>), hash_b |-> HashModel(b, <<>>)])
    /\ UNCHANGED <<scene_vars, frame, camera_vars>>

NextIdentity == \E a, b \in ComparedModels : CompareModels(a, b)

IdentitySpec == InitIdentity /\ [][NextIdentity]_vars

\* C12: two Models are equal exactly when their names are equal, whatever their
\* meshes and materials; equal Models have equal hashes, and the hash of a Model
\* is the hash of its name alone.
C12_IdentityByName ==
    IsSome(compared) =>
        LET c == Unwrap(compared) IN
        /\ c.eq <=> (c.a.name = c.b.name)
        /\ c.eq => c.hash_a = c.hash_b
        /\ c.hash_a = <<c.a.name, 255>>
        /\ c.hash_b = <<c.b.name, 255>>

C12_EqualNamesDifferentContent ==
    /\ IsSome(compared)
    /\ Unwrap(compared).eq
    /\ Len(Unwrap(compared).a.meshes) # Len(Unwrap(compared).b.meshes)
    /\ Unwrap(compared).a.materials # Unwrap(compared).b.materials

(***************************************************************************)
(* Properties of the order of the commands of a pass                       *)
(***************************************************************************)
\* commands a pass holds before the first command of model m
PassOffset[m \in 1..(NumModels + 1)] ==
    IF m = 1 THEN 0 ELSE PassOffset[m - 1] + 1 + 4 * Len(models[m - 1].model.meshes)

\* C13: a pass holds the models in registration order; for each model first the
\* binding of its instance buffer (the default-instance buffer without one) at
\* slot 1, then for each mesh in mesh order the material's bind group, the
\* vertex buffer, the index buffer and the indexed draw, whose instance range is
\* 0..len of the instance list, or 0..1 without a list; and nothing else.
C13_DrawOrder ==
    render_pass # <<>> =>
        /\ Len(render_pass) = PassOffset[NumModels + 1]
        /\ \A m \in 1..NumModels :
              LET im == models[m]
                  base == PassOffset[m]
              IN  /\ render_pass[base + 1] =
                        [cmd |-> "set_vertex_buffer", model |-> m, mesh |-> 0,
                         arg |-> [slot |-> 1,
                                  buffer |-> IF IsSome(im.instance_buffer)
                                             THEN Unwrap(im.instance_buffer)
                                             ELSE SingleInstanceBuffer]]
                  /\ \A k \in 1..Len(im.model.meshes) :
                        LET b == base + 1 + 4 * (k - 1)
                            mesh == im.model.meshes[k]
                        IN  /\ render_pass[b + 1] =
                                  [cmd |-> "set_bind_group", model |-> m, mesh |-> k,
                                   arg |-> [index |-> 0,
                                            bind_group |->
                                                im.model.materials[mesh.material_index + 1]
                                                    .bind_group]]
                            /\ render_pass[b + 2] =
                                  [cmd |-> "set_vertex_buffer", model |-> m, mesh |-> k,
                                   arg |-> [slot |-> 0, buffer |-> <<"vertex", m, k>>]]
                            /\ render_pass[b + 3] =
                                  [cmd |-> "set_index_buffer", model |-> m, mesh |-> k,
                                   arg |-> [buffer |-> <<"index", m, k>>]]
                            /\ render_pass[b + 4] =
                                  [cmd |-> "draw_indexed", model |-> m, mesh |-> k,
                                   arg |-> [indices |-> <<0, mesh.indices_count>>,
                                            base_vertex |-> 0,
                                            instances |->
                                                <<0, IF IsSome(im.instances)
                                                     THEN Len(Unwrap(im.instances))
                                                     ELSE 1>>]]

C13_PassOfBothKinds ==
    /\ render_pass # <<>>
    /\ IsNone(models[1].instances)
    /\ IsNone(models[1].instance_buffer)
    /\ IsSome(models[2].instances)
    /\ Len(Unwrap(models[2].instances)) = 3
    /\ IsSome(models[2].instance_buffer)
    /\ Capacity(models[2]) = 10

(***************************************************************************)
(* Camera (camera.rs)                                                      *)
(***************************************************************************)
\* Angles are counted in units of 1/10000 rad, durations in milliseconds and
\* mouse movement in pixels, so that mouse * 1.5 * seconds is exact:
\* 1 px * 1.5 * 1 ms = 0.0015 rad = 15 units.
\* std::f32::consts::PI / 2.0
HalfPi == 15708
\* let offset = 0.01
PitchOffset == 100
PitchMax == HalfPi - PitchOffset
PitchMin == -HalfPi + PitchOffset

\* the yaw the camera is followed up to, to either side
MaxYaw == 480

\* frame durations, and cursor offsets from the window centre
Deltas == {0, 8, 16}
MouseDiffs == {<<x, y>> : x \in {-2, 0, 2}, y \in {-200, -20, 0, 20, 200}}

Abs(x) == IF x < 0 THEN -x ELSE x

\* slip of AngleStep: the axis is inverted
AngleStepInverted(mouse, delta) == -(mouse * delta * 15)

\* mouse_diff * sensitivity * delta.as_secs_f32(), sensitivity = 1.5
AngleStep(mouse, delta) == mouse * delta * 15

\* slip of Clamp: only the upper bound is enforced
ClampNoLower(x, lo, hi) == IF x > hi THEN hi ELSE x

\* f32::clamp
Clamp(x, lo, hi) == IF x < lo THEN lo ELSE IF x > hi THEN hi ELSE x

\* a direction given by its components <<x, y, z>>
Cartesian(v) == [form |-> "xyz", v |-> v]

\* the unit vector (cos yaw cos pitch, -sin pitch, sin yaw cos pitch), kept by
\* its two angles
SphericalDirection(yaw, pitch) == [form |-> "yaw-pitch", v |-> <<yaw, pitch>>]

\* Camera::update_direction(delta) with the input state's mouse_diff
UpdateDirection(cam, diff, delta) ==
    IF diff = <<0, 0>>
    THEN cam
    ELSE LET yaw == cam.yaw + AngleStep(diff[1], delta)
             pitch == Clamp(cam.pitch + AngleStep(diff[2], delta), PitchMin, PitchMax)
         IN  [cam EXCEPT !.yaw = yaw, !.pitch = pitch,
                         !.direction = SphericalDirection(yaw, pitch)]

\* the camera State::new builds for a window of `size`; fractions are <<n, d>>
EditorCamera(size) ==
    [position |-> <<0, 2, 2>>,
     direction |-> Cartesian(<<0, 0, -1>>),
     pitch |-> 0,
     yaw |-> 0,
     up |-> <<0, 1, 0>>,
     aspect_ratio |-> size,
     fov |-> 45,
     z_near |-> <<1, 10>>,
     z_far |-> <<100, 1>>]

\* pitches the camera starts from: the editor's 0 and two others off the grid
StartPitches == {-100, 0, 100}

InitPitch ==
    /\ NoScene
    /\ compared = None
    /\ frame = None
    /\ \E pitch \in StartPitches :
          camera = [EditorCamera(<<800, 600>>) EXCEPT !.pitch = pitch]
    /\ mouse_diff = <<0, 0>>
    /\ time_delta = 0
    /\ clip = None

\* WindowEvent::CursorMoved: the input state takes the new offset, then
\* process_window_event calls camera.update_direction(time.delta)
CursorMoved(diff) ==
    /\ Abs(UpdateDirection(camera, diff, time_delta).yaw) <= MaxYaw
    /\ mouse_diff' = diff
    /\ camera' = UpdateDirection(camera, diff, time_delta)
    /\ UNCHANGED <<scene_vars, compared, frame, time_delta, clip>>

\* the end of a frame: time.delta becomes the duration of the frame
FrameTimed(delta) ==
    /\ time_delta # delta
    /\ time_delta' = delta
    /\ UNCHANGED <<scene_vars, compared, frame, camera, mouse_diff, clip>>

NextPitch ==
    \/ \E diff \in MouseDiffs : CursorMoved(diff)
    \/ \E delta \in Deltas : FrameTimed(delta)

PitchSpec == InitPitch /\ [][NextPitch]_vars

\* update_direction called again and again with one positive vertical offset
\* and positive frame durations
UpwardDiffs == {<<0, y>> : y \in {1, 20, 200}}
AnyPitches == {PitchMin, -100, 0, 7000, PitchMax}

InitPitchUp ==
    /\ NoScene
    /\ compared = None
    /\ frame = None
    /\ \E pitch \in AnyPitches :
          camera = [EditorCamera(<<800, 600>>) EXCEPT !.pitch = pitch]
    /\ mouse_diff \in UpwardDiffs
    /\ time_delta \in Deltas \ {0}
    /\ clip = None

\* camera.update_direction(time.delta) with the offset the input state holds
UpdateDirectionCall ==
    /\ camera' = UpdateDirection(camera, mouse_diff, time_delta)
    /\ UNCHANGED <<scene_vars, compared, frame, mouse_diff, time_delta, clip>>

\* a frame ends with another positive duration
FrameTimedPositive(delta) ==
    /\ delta > 0
    /\ FrameTimed(delta)

NextPitchUp ==
    \/ UpdateDirectionCall
    \/ \E delta \in Deltas : FrameTimedPositive(delta)

\* the calls keep coming
PitchUpSpec == InitPitchUp /\ [][NextPitchUp]_vars /\ WF_vars(UpdateDirectionCall)

(***************************************************************************)
(* Camera::build_view_projection_matrix                                    *)
(***************************************************************************)
\* Matrix entries are fractions <<n, d>> in lowest terms with d > 0.
RECURSIVE GCD(_, _)
GCD(a, b) == IF b = 0 THEN a ELSE GCD(b, a % b)

Frac(n, d) ==
    LET g == GCD(Abs(n), Abs(d))
        sign == IF d < 0 THEN -1 ELSE 1
    IN  <<sign * (n \div g), sign * (d \div g)>>

FracOf(i) == <<i, 1>>
FracAdd(a, b) == Frac(a[1] * b[2] + b[1] * a[2], a[2] * b[2])
FracSub(a, b) == Frac(a[1] * b[2] - b[1] * a[2], a[2] * b[2])
FracMul(a, b) == Frac(a[1] * b[1], a[2] * b[2])
FracDiv(a, b) == Frac(a[1] * b[2], a[2] * b[1])

\* matrix * matrix and matrix * vector, matrices as four columns
FracMatMul(a, b) ==
    [j \in 1..4 |-> [i \in 1..4 |->
        FracAdd(FracAdd(FracMul(a[1][i], b[j][1]), FracMul(a[2][i], b[j][2])),
                FracAdd(FracMul(a[3][i], b[j][3]), FracMul(a[4][i], b[j][4])))]]

FracMatVec(a, v) ==
    [i \in 1..4 |->
        FracAdd(FracAdd(FracMul(a[1][i], v[1]), FracMul(a[2][i], v[2])),
                FracAdd(FracMul(a[3][i], v[3]), FracMul(a[4][i], v[4])))]

\* cgmath::Matrix4::new(c0r0, c0r1, c0r2, c0r3, c1r0, ..): the arguments fill
\* the matrix column by column
Matrix4New(e) == [j \in 1..4 |-> [i \in 1..4 |-> e[4 * (j - 1) + i]]]

\* OPENGL_TO_WGPU_MATRIX, the sixteen arguments in the order of the source
OPENGL_TO_WGPU_MATRIX ==
    Matrix4New(<< <<1, 1>>, <<0, 1>>, <<0, 1>>, <<0, 1>>,
                  <<0, 1>>, <<1, 1>>, <<0, 1>>, <<0, 1>>,
                  <<0, 1>>, <<0, 1>>, <<1, 2>>, <<1, 2>>,
                  <<0, 1>>, <<0, 1>>, <<0, 1>>, <<1, 1>> >>)

\* vectors of whole numbers
Dot(a, b) == a[1] * b[1] + a[2] * b[2] + a[3] * b[3]
Cross(a, b) ==
    <<a[2] * b[3] - a[3] * b[2], a[3] * b[1] - a[1] * b[3], a[1] * b[2] - a[2] * b[1]>>
\* normalize, for a vector along one axis (its length is the sum of the magnitudes)
Normalize(v) ==
    LET len == Abs(v[1]) + Abs(v[2]) + Abs(v[3]) IN <<v[1] \div len, v[2] \div len, v[3] \div len>>

\* cgmath::Matrix4::look_to_rh(eye, dir, up)
LookToRh(eye, dir, up) ==
    LET f == Normalize(dir)
        s == Normalize(Cross(f, up))
        u == Cross(s, f)
    IN  Matrix4New(<< FracOf(s[1]), FracOf(u[1]), FracOf(-f[1]), FracOf(0),
                      FracOf(s[2]), FracOf(u[2]), FracOf(-f[2]), FracOf(0),
                      FracOf(s[3]), FracOf(u[3]), FracOf(-f[3]), FracOf(0),
                      FracOf(-Dot(eye, s)), FracOf(-Dot(eye, u)), FracOf(Dot(eye, f)),
                      FracOf(1) >>)

\* slip of LookAtRh: the direction and the up vector change places
LookAtRhUpSwapped(eye, center, up) ==
    LookToRh(eye, up, <<center[1] - eye[1], center[2] - eye[2], center[3] - eye[3]>>)

\* cgmath::Matrix4::look_at_rh(eye, center, up)
LookAtRh(eye, center, up) ==
    LookToRh(eye, <<center[1] - eye[1], center[2] - eye[2], center[3] - eye[3]>>, up)

\* cot(fovy / 2) for the field of view of 90 degrees
CotHalf(fov) == IF fov = 90 THEN <<1, 1>> ELSE <<0, 1>>

\* cgmath::perspective(fovy, aspect, near, far)
Perspective(fov, aspect, near, far) ==
    LET f == CotHalf(fov)
        zero == <<0, 1>>
    IN  Matrix4New(<< FracDiv(f, aspect), zero, zero, zero,
                      zero, f, zero, zero,
                      zero, zero, FracDiv(FracAdd(far, near), FracSub(near, far)), <<-1, 1>>,
                      zero, zero,
                      FracDiv(FracMul(<<2, 1>>, FracMul(far, near)), FracSub(near, far)),
                      zero >>)

\* projection * view, before the correction
ProjectionView(cam) ==
    LET d == cam.direction.v
        p == cam.position
    IN  FracMatMul(Perspective(cam.fov, Frac(cam.aspect_ratio[1], cam.aspect_ratio[2]),
                               cam.z_near, cam.z_far),
                   LookAtRh(p, <<p[1] + d[1], p[2] + d[2], p[3] + d[3]>>, cam.up))

\* Camera::build_view_projection_matrix
BuildViewProjectionMatrix(cam) == FracMatMul(OPENGL_TO_WGPU_MATRIX, ProjectionView(cam))

\* depth of the farthest world point pushed through the matrix
MaxDepth == 4

\* world points: on the -Z axis, and a few off it
WorldPoints ==
    {<<0, 0, -z>> : z \in 1..MaxDepth} \cup {<<1, 0, -2>>, <<0, 1, -2>>, <<-1, 2, -3>>, <<2, 0, 0>>}

\* cameras with a field of view of 90 degrees looking along an axis
ProjectionCameras ==
    {[EditorCamera(size) EXCEPT !.position = position, !.direction = Cartesian(dir),
                                !.fov = 90, !.z_near = planes[1], !.z_far = planes[2]] :
        size \in {<<800, 600>>, <<600, 600>>},
        position \in {<<0, 0, 0>>, <<0, 2, 2>>},
        dir \in {<<0, 0, -1>>, <<1, 0, 0>>},
        planes \in {<< <<1, 10>>, <<100, 1>> >>, << <<1, 2>>, <<10, 1>> >>}}

InitProjection ==
    /\ NoScene
    /\ compared = None
    /\ frame = None
    /\ camera \in ProjectionCameras
    /\ mouse_diff = <<0, 0>>
    /\ time_delta = 0
    /\ clip = None

\* the matrix is built and a world point is taken to clip space by it
ProjectPoint(point) ==
    LET v == <<FracOf(point[1]), FracOf(point[2]), FracOf(point[3]), FracOf(1)>> IN
    /\ clip' = Some([point |-> point,
                     uncorrected |-> FracMatVec(ProjectionView(camera), v),
                     clip |-> FracMatVec(BuildViewProjectionMatrix(camera), v)])
    /\ UNCHANGED <<scene_vars, compared, frame, camera, mouse_diff, time_delta>>

NextProjection == \E point \in WorldPoints : ProjectPoint(point)

ProjectionSpec == InitProjection /\ [][NextProjection]_vars

(***************************************************************************)
(* The frame loop (bin/editor.rs main, lib.rs run)                         *)
(***************************************************************************)
\* frames the loop is followed for
MaxFrames == 3
\* instances the editor's update gives the cube each frame (20 * 20 in the code)
InstancesPerFrame == 3

Programs == {"editor", "lib"}

\* what State::render returns: Ok, a wgpu::SurfaceError of get_current_texture,
\* or the error of the GUI render
SurfaceErrors == {"SurfaceLost", "SurfaceOutdated", "SurfaceTimeout", "SurfaceOutOfMemory"}
RenderResults == {"Ok", "GuiError"} \cup SurfaceErrors

\* sizes the window reports; a minimised window reports 0 x 0
WindowSizes == {<<0, 0>>, <<800, 600>>, <<1280, 720>>}

\* resize(new_size): asserts a non-empty size, then configures the surface
Resize(f, new_size) ==
    IF new_size[1] = 0 \/ new_size[2] = 0
    THEN [f EXCEPT !.control_flow = "Panicked", !.reconfigured = FALSE]
    ELSE [f EXCEPT !.size = new_size, !.surface_size = new_size, !.reconfigured = TRUE]

\* slip of OnRenderResult: every surface error is answered by reconfiguring
OnRenderResultRecoverAll(f, result) ==
    IF result = "Ok"
    THEN [f EXCEPT !.reconfigured = FALSE]
    ELSE IF result \in SurfaceErrors
    THEN Resize(f, f.size)
    ELSE [f EXCEPT !.control_flow = "Exit", !.reconfigured = FALSE]

\* editor.rs: match state.render()
OnRenderResult(f, result) ==
    IF result = "Ok"
    THEN [f EXCEPT !.reconfigured = FALSE]
    ELSE IF result \in SurfaceErrors /\ result = "SurfaceLost"
    THEN Resize(f, f.size)
    ELSE [f EXCEPT !.control_flow = "Exit", !.reconfigured = FALSE]

\* lib.rs: match state.render()
LibOnRenderResult(f, result) ==
    IF result = "Ok"
    THEN [f EXCEPT !.reconfigured = FALSE]
    ELSE IF result \in SurfaceErrors
    THEN IF result = "SurfaceLost"
         THEN Resize(f, f.size)
         ELSE [f EXCEPT !.control_flow = "Exit", !.reconfigured = FALSE]
    ELSE [f EXCEPT !.control_flow = "Exit", !.reconfigured = FALSE]

\* the window is created with a non-empty size and the surface configured with it
InitFrame ==
    /\ \E program \in Programs, size \in WindowSizes \ {<<0, 0>>} :
          frame = [program |-> program, control_flow |-> "Poll", size |-> size,
                   surface_size |-> size, reconfigured |-> FALSE, results |-> <<>>]
    /\ IF frame.program = "editor" THEN EditorScene ELSE NoScene
    /\ compared = None
    /\ camera = EditorCamera(frame.size)
    /\ mouse_diff = <<0, 0>>
    /\ time_delta = 0
    /\ clip = None

Running == frame.control_flow = "Poll"

\* Event::RedrawRequested of the editor: update(), render(), the match on the
\* result, and time.delta.  No key is held, so update_position leaves the camera
\* alone.
EditorRedraw(t, result, delta) ==
    LET set == [models EXCEPT ![2].instances = Some(InstanceList(InstancesPerFrame, t))]
        done == [m \in 1..Len(set) |-> UpdateModel(set[m], <<m, allocs[m] + 1>>)]
        synced == [m \in 1..Len(set) |-> done[m].model]
    IN  /\ Running
        /\ frame.program = "editor"
        /\ Len(frame.results) < MaxFrames
        /\ models' = synced
        /\ last_sync' = [m \in 1..Len(set) |-> done[m].op]
        /\ allocs' = [m \in 1..Len(set) |->
                        IF done[m].op \in {"create", "grow"} THEN allocs[m] + 1 ELSE allocs[m]]
        /\ script_pos' = [m \in 1..Len(set) |->
                            NextScriptPos(script_pos[m], set[m].instances)]
        /\ render_pass' = IF result \in SurfaceErrors THEN <<>> ELSE DrawCommands(synced, 1)
        /\ frame' = OnRenderResult([frame EXCEPT !.results = Append(@, result)], result)
        /\ time_delta' = delta
        /\ UNCHANGED <<load_vars, legacy_vars, compared, camera, mouse_diff, clip>>

\* Event::RedrawRequested of lib.rs: its State holds none of the scene
LibRedraw(result, delta) ==
    /\ Running
    /\ frame.program = "lib"
    /\ Len(frame.results) < MaxFrames
    /\ frame' = LibOnRenderResult([frame EXCEPT !.results = Append(@, result)], result)
    /\ time_delta' = delta
    /\ UNCHANGED <<scene_vars, compared, camera, mouse_diff, clip>>

\* WindowEvent::Resized / ScaleFactorChanged
WindowResized(new_size) ==
    /\ Running
    /\ new_size # frame.size
    /\ frame' = Resize(frame, new_size)
    /\ UNCHANGED <<scene_vars, compared, camera_vars>>

\* WindowEvent::CloseRequested, or Escape pressed
CloseRequested ==
    /\ Running
    /\ frame' = [frame EXCEPT !.control_flow = "Exit", !.reconfigured = FALSE]
    /\ UNCHANGED <<scene_vars, compared, camera_vars>>

NextFrame ==
    \/ \E t \in 1..MaxTime, result \in RenderResults, delta \in Deltas :
          EditorRedraw(t, result, delta)
    \/ \E result \in RenderResults, delta \in Deltas : LibRedraw(result, delta)
    \/ \E new_size \in WindowSizes : WindowResized(new_size)
    \/ CloseRequested

FrameSpec == InitFrame /\ [][NextFrame]_vars

\* C14: a frame whose render fails with the surface-lost error reconfigures the
\* surface at the current size and leaves the loop running; a frame whose render
\* fails with any other error sets the control flow to Exit; a frame that renders
\* leaves the control flow alone.
C14_LostRecoversOthersExit ==
    [][Len(frame'.results) = Len(frame.results) + 1 =>
          LET result == frame'.results[Len(frame'.results)] IN
          /\ result = "SurfaceLost" =>
                /\ frame'.control_flow = "Poll"
                /\ frame'.reconfigured
                /\ frame'.surface_size = frame.size
                /\ frame'.size = frame.size
          /\ result \notin {"Ok", "SurfaceLost"} =>
                /\ frame'.control_flow = "Exit"
                /\ ~frame'.reconfigured
                /\ frame'.surface_size = frame.surface_size
          /\ result = "Ok" =>
                /\ frame'.control_flow = frame.control_flow
                /\ frame'.surface_size = frame.surface_size]_vars

C14_FrameAfterSurfaceLost ==
    /\ Len(frame.results) = 3
    /\ frame.results[1] = "SurfaceLost"
    /\ frame.results[2] = "Ok"
    /\ frame.results[3] = "SurfaceTimeout"
    /\ frame.control_flow = "Exit"
    /\ frame.program = "editor"

(***************************************************************************)
(* Properties of the camera                                                *)
(***************************************************************************)
\* C15: the pitch stays within [-pi/2 + 0.01, pi/2 - 0.01] under every sequence
\* of update_direction calls, whatever the mouse offsets and frame durations.
C15_PitchWithinBounds ==
    /\ camera.pitch >= -HalfPi + PitchOffset
    /\ camera.pitch <= HalfPi - PitchOffset

C15_ClampedAtLowerBound ==
    /\ camera.pitch = -HalfPi + PitchOffset
    /\ mouse_diff[2] < 0
    /\ camera.direction = SphericalDirection(camera.yaw, camera.pitch)

\* C16: under repeated update_direction calls with one positive vertical mouse
\* offset and positive frame durations, the pitch eventually is at its upper
\* bound pi/2 - 0.01 and stays there for good.
C16_PitchConvergesToUpperBound == <>[](camera.pitch = HalfPi - PitchOffset)

C16_ArrivedAtUpperBound ==
    /\ camera.pitch = HalfPi - PitchOffset
    /\ mouse_diff[2] > 0
    /\ time_delta > 0
    /\ camera.direction = SphericalDirection(0, HalfPi - PitchOffset)

\* C17: the correction applied on top of projection * view takes a clip-space
\* point (x, y, z, w) to (x, y, (z + w) / 2, w): x, y and w are kept and the
\* depth range [-1, 1] becomes [0, 1].
C17_DepthCorrection ==
    IsSome(clip) =>
        LET u == Unwrap(clip).uncorrected
            c == Unwrap(clip).clip
        IN  /\ c[1] = u[1]
            /\ c[2] = u[2]
            /\ c[3] = FracDiv(FracAdd(u[3], u[4]), <<2, 1>>)
            /\ c[4] = u[4]

\* C18: a camera at the origin looking down -Z with up +Y and a field of view of
\* 90 degrees takes every point (0, 0, -z) strictly between its near and far
\* planes to a clip-space point with x = 0 and y = 0.
C18_AxisPointsStayOnAxis ==
    (/\ IsSome(clip)
     /\ camera.position = <<0, 0, 0>>
     /\ camera.direction = Cartesian(<<0, 0, -1>>)
     /\ camera.up = <<0, 1, 0>>
     /\ camera.fov = 90
     /\ Unwrap(clip).point[1] = 0
     /\ Unwrap(clip).point[2] = 0
     /\ Unwrap(clip).point[3] < 0
     /\ FracSub(FracOf(-Unwrap(clip).point[3]), camera.z_near)[1] > 0
     /\ FracSub(camera.z_far, FracOf(-Unwrap(clip).point[3]))[1] > 0) =>
        /\ Unwrap(clip).clip[1] = <<0, 1>>
        /\ Unwrap(clip).clip[2] = <<0, 1>>

C18_AxisPointProjected ==
    /\ IsSome(clip)
    /\ camera.position = <<0, 0, 0>>
    /\ camera.direction = Cartesian(<<0, 0, -1>>)
    /\ camera.z_near = <<1, 2>>
    /\ Unwrap(clip).point = <<0, 0, -3>>
    /\ Unwrap(clip).clip[1] = <<0, 1>>
    /\ Unwrap(clip).clip[4] # <<0, 1>>

(***************************************************************************)
(* Properties of allocation and in-place update of the instance buffers    *)
(***************************************************************************)
\* translation * rotation of an unrotated instance at <<x, y, z>>, column by column
TranslationColumns(instance) ==
    << <<1, 0, 0, 0>>, <<0, 1, 0, 0>>, <<0, 0, 1, 0>>,
       <<instance.position[1], instance.position[2], instance.position[3], 1>> >>

\* C19: after update_instance_buffers allocated a buffer for a model (creation
\* or growth), the buffer has exactly as many slots as the model has instances
\* and holds the matrix of each of them, in order; an allocation happens only
\* without a buffer or with one of fewer slots than instances, and the buffer it
\* replaces is referenced by no model afterwards.
C19_AllocationIsExact ==
    /\ [](\A m \in 1..NumModels :
            last_sync[m] \in {"create", "grow"} =>
                /\ IsSome(models[m].instances)
                /\ IsSome(models[m].instance_buffer)
                /\ LET buffer == Unwrap(models[m].instance_buffer)
                       instances == Unwrap(models[m].instances)
                   IN  /\ Len(buffer.contents) = Len(instances)
                       /\ \A i \in 1..Len(instances) :
                             buffer.contents[i] = TranslationColumns(instances[i])
                       /\ buffer.id = <<m, allocs[m]>>)
    /\ [][\A m \in 1..NumModels :
            allocs'[m] # allocs[m] =>
                /\ allocs'[m] = allocs[m] + 1
                /\ last_sync'[m] \in {"create", "grow"}
                /\ IsSome(models[m].instances)
                /\ (last_sync'[m] = "create") <=> IsNone(models[m].instance_buffer)
                /\ IsSome(models[m].instance_buffer) =>
                      /\ Len(Unwrap(models[m].instance_buffer).contents)
                             < Len(Unwrap(models[m].instances))
                      /\ \A n \in 1..NumModels :
                            models'[n].instance_buffer # models[m].instance_buffer]_vars

C19_GrownToTen ==
    /\ last_sync[2] = "grow"
    /\ allocs[2] = 2
    /\ Len(Unwrap(models[2].instances)) = 10
    /\ Len(Unwrap(models[2].instance_buffer).contents) = 10

\* C20: an update that finds a buffer with at least as many slots as the model
\* has instances keeps that buffer (same identity, same number of slots, no
\* allocation), puts the matrices of the instances into its first slots and
\* leaves the slots after them as they were.
C20_InPlaceWriteKeepsTail ==
    [][\A m \in 1..NumModels :
          /\ (/\ last_sync[m] = "changed"
              /\ last_sync'[m] # "changed"
              /\ IsSome(models[m].instances)
              /\ IsSome(models[m].instance_buffer)
              /\ Len(Unwrap(models[m].instance_buffer).contents)
                     >= Len(Unwrap(models[m].instances))) =>
                last_sync'[m] = "write"
          /\ (last_sync'[m] = "write" /\ models'[m].instances = models[m].instances) =>
                /\ IsSome(models[m].instance_buffer)
                /\ allocs'[m] = allocs[m]
                /\ LET old == Unwrap(models[m].instance_buffer)
                       new == Unwrap(models'[m].instance_buffer)
                       instances == Unwrap(models[m].instances)
                   IN  /\ Len(old.contents) >= Len(instances)
                       /\ new.id = old.id
                       /\ Len(new.contents) = Len(old.contents)
                       /\ \A i \in 1..Len(instances) :
                             new.contents[i] = TranslationColumns(instances[i])
                       /\ \A i \in (Len(instances) + 1)..Len(old.contents) :
                             new.contents[i] = old.contents[i]]_vars

C20_WrittenWithStaleTail ==
    /\ last_sync[2] = "write"
    /\ Len(Unwrap(models[2].instances)) = 2
    /\ Len(Unwrap(models[2].instance_buffer).contents) = 10
    /\ Unwrap(models[2].instance_buffer).contents[10][4][1] = 9

(***************************************************************************)
(* Properties of the life of an instance buffer and of the fallback draw   *)
(***************************************************************************)
\* C21: a model that has an instance buffer has one after every step: no
\* assignment of its instance list (None and shorter lists included), no update
\* and no draw takes the buffer away.
C21_BufferNeverRemoved ==
    [][\A m \in 1..NumModels :
          IsSome(models[m].instance_buffer) => IsSome(models'[m].instance_buffer)]_vars

C21_BufferKeptWithoutList ==
    /\ IsNone(models[2].instances)
    /\ last_sync[2] = "skip"
    /\ IsSome(models[2].instance_buffer)
    /\ allocs[2] >= 1

\* C22: in every pass, a model without an instance list has the shared buffer of
\* the one default instance bound at vertex slot 1, whether or not it had a list
\* and a buffer of its own before.
C22_FallbackBindsSingleBuffer ==
    \A m \in 1..NumModels :
        (render_pass # <<>> /\ IsNone(models[m].instances)) =>
            /\ Len(InstanceBindingsOf(render_pass, m)) = 1
            /\ InstanceBindingsOf(render_pass, m)[1].arg.slot = 1
            /\ InstanceBindingsOf(render_pass, m)[1].arg.buffer = SingleInstanceBuffer
            /\ \A k \in 1..Len(DrawsOf(render_pass, m)) :
                  DrawsOf(render_pass, m)[k].arg.instances = <<0, 1>>

\* C23: in a pass recorded after update_instance_buffers ran on the current
\* instance list of a model, the model has an instance buffer, that buffer is the
\* one bound at vertex slot 1, and each draw of the model has the instance range
\* 0..len with len no larger than the number of slots of the buffer.
C23_DrawRangeWithinBuffer ==
    \A m \in 1..NumModels :
        (/\ render_pass # <<>>
         /\ IsSome(models[m].instances)
         /\ last_sync[m] # "changed") =>
            /\ IsSome(models[m].instance_buffer)
            /\ Len(InstanceBindingsOf(render_pass, m)) = 1
            /\ InstanceBindingsOf(render_pass, m)[1].arg.buffer
                   = Unwrap(models[m].instance_buffer)
            /\ Len(DrawsOf(render_pass, m)) = Len(models[m].model.meshes)
            /\ \A k \in 1..Len(DrawsOf(render_pass, m)) :
                  LET range == DrawsOf(render_pass, m)[k].arg.instances IN
                  /\ range[1] = 0
                  /\ range[2] = Len(Unwrap(models[m].instances))
                  /\ range[2] <= Len(Unwrap(models[m].instance_buffer).contents)

C23_ShortListDrawnFromLargeBuffer ==
    /\ render_pass # <<>>
    /\ last_sync[2] = "write"
    /\ Len(Unwrap(models[2].instances)) = 2
    /\ Len(Unwrap(models[2].instance_buffer).contents) = 10
    /\ DrawsOf(render_pass, 2)[1].arg.instances = <<0, 2>>

\* the 4x4 identity, column by column
IdentityColumns == << <<1, 0, 0, 0>>, <<0, 1, 0, 0>>, <<0, 0, 1, 0>>, <<0, 0, 0, 1>> >>

\* C25: the default ModelInstance encodes to the identity matrix, the buffer of
\* RenderData::new holds that one matrix, and a model that never had a buffer of
\* its own is drawn from it.
C25_DefaultInstanceIsIdentity ==
    /\ RawInstanceFrom(DefaultModelInstance) = IdentityColumns
    /\ SingleInstanceBuffer.contents = <<IdentityColumns>>
    /\ \A m \in 1..NumModels :
          (render_pass # <<>> /\ IsNone(models[m].instance_buffer)) =>
              /\ Len(InstanceBindingsOf(render_pass, m)) = 1
              /\ InstanceBindingsOf(render_pass, m)[1].arg.buffer.contents
                     = <<IdentityColumns>>

C25_MapDrawnThroughFallback ==
    /\ render_pass # <<>>
    /\ IsNone(models[1].instances)
    /\ IsNone(models[1].instance_buffer)
    /\ InstanceBindingsOf(render_pass, 1)[1].arg.buffer = SingleInstanceBuffer
    /\ DrawsOf(render_pass, 1)[1].arg.instances = <<0, 1>>

(***************************************************************************)
(* Model::load over files whose materials may name a normal map            *)
(***************************************************************************)
\* a file material with both of its texture fields: diffuse_texture and
\* normal_texture, each a path or none
NormalMapDefs ==
    {[name |-> "material", diffuse_texture |-> d, normal_texture |-> n] :
        d \in {None, Some("wood.png")}, n \in {None, Some("wood_normal.png")}}

\* files of one mesh and up to MaxMaterials such materials
NormalMapFiles ==
    {ModelFile("model.obj", Some(l),
        <<[name |-> "mesh", positions |-> 6, texcoords |-> 4, normals |-> 6, indices |-> 3,
           material_id |-> None]>>) : l \in SeqsUpTo(NormalMapDefs, MaxMaterials)}

NextNormalMap == \E file \in NormalMapFiles : LoadModel(file)

NormalMapSpec == InitLoad /\ [][NextNormalMap]_vars

\* C24: after a successful load of a file that defines materials, each loaded
\* material holds the diffuse texture of the path the file names (or of the
\* default path), and holds a normal texture exactly when the file's material
\* names a normal map.
C24_NormalPresentWhenNamed ==
    (/\ IsSome(load_result)
     /\ Unwrap(load_result).ok
     /\ Unwrap(Unwrap(load_file).materials) # <<>>) =>
        LET defs == Unwrap(Unwrap(load_file).materials)
            materials == Unwrap(Unwrap(load_result).model).materials
        IN  /\ Len(materials) = Len(defs)
            /\ \A k \in 1..Len(defs) :
                  /\ materials[k].diffuse.path
                         = UnwrapOr(defs[k].diffuse_texture, DefaultTexturePath)
                  /\ IsSome(materials[k].normal) <=> IsSome(defs[k].normal_texture)

(***************************************************************************)
(* The editor's event loop, event by event (bin/editor.rs main, input.rs)  *)
(***************************************************************************)
\* frames the event loop is followed for
MaxEventFrames == 2

\* the keys Camera::update_position asks for; W stands for the four of them
MovementKeys == {"W"}

\* The loop state is kept in `frame`: control flow, context size, surface size,
\* the number of frames run, the cursor state, the stored window centre, the keys
\* held down, the last event handled, the phases that event ran and the last
\* contents written to the view-projection uniform.

\* the uniform written from a camera: the matrix is kept by the camera state it
\* was built from
ViewProjectionUniform(cam) == Some([view_projection_of |-> cam])

\* position + axis * speed * delta, kept as the list of displacements applied to
\* the starting point; `amount` is speed * milliseconds
Moved(position, dir, axis, amount) ==
    IF amount = 0
    THEN position
    ELSE [position EXCEPT !.moves = Append(@, [dir |-> dir, axis |-> axis, amount |-> amount])]

\* Camera::update_position(delta): speed = 10.0, keys W, S, A, D in this order
UpdatePosition(cam, keys, delta) ==
    LET speed == 10
        w == IF "W" \in keys THEN Moved(cam.position, cam.direction, "forward", speed * delta)
                             ELSE cam.position
        ws == IF "S" \in keys THEN Moved(w, cam.direction, "forward", -(speed * delta)) ELSE w
        wsa == IF "A" \in keys THEN Moved(ws, cam.direction, "right", -(speed * delta)) ELSE ws
        wsad == IF "D" \in keys THEN Moved(wsa, cam.direction, "right", speed * delta) ELSE wsa
    IN  [cam EXCEPT !.position = wsad]

\* slip of EditorUpdate: the camera is moved before the uniform is written
EditorUpdateMoveFirst(cam, keys, delta) ==
    [uniform |-> ViewProjectionUniform(UpdatePosition(cam, keys, delta)),
     camera |-> UpdatePosition(cam, keys, delta)]

\* State::update, the camera's part: the uniform is written from the camera,
\* then (after the instance buffers) the camera is moved
EditorUpdate(cam, keys, delta) ==
    [uniform |-> ViewProjectionUniform(cam),
     camera |-> UpdatePosition(cam, keys, delta)]

\* update_mouse_diff(current_position, window): the centre is taken from the
\* window's size, and the offset is the position minus that centre
UpdateMouseDiff(f, current_position) ==
    LET center == <<f.size[1] \div 2, f.size[2] \div 2>> IN
    [frame |-> [f EXCEPT !.window_center = center],
     mouse_diff |-> <<current_position[1] - center[1], current_position[2] - center[2]>>]

\* input::update_input_state(&event, window).  `g_released` is what
\* key_released(G) of the input helper answers after it saw the event.
UpdateInputState(f, diff, ev, g_released) ==
    IF ev.kind \notin {"KeyboardInput", "CursorMoved", "Resized", "ScaleFactorChanged",
                       "CloseRequested"}
    THEN [frame |-> f, mouse_diff |-> diff]
    ELSE LET keyed == IF ev.kind = "KeyboardInput"
                      THEN [f EXCEPT !.keys =
                                IF ev.state = "Pressed" THEN @ \cup ({ev.key} \cap MovementKeys)
                                                        ELSE @ \ {ev.key}]
                      ELSE f
         IN  IF g_released /\ keyed.cursor_state = "Visible"
             THEN UpdateMouseDiff([keyed EXCEPT !.cursor_state = "Hidden"], keyed.window_center)
             ELSE LET toggled == IF g_released THEN [keyed EXCEPT !.cursor_state = "Visible"]
                                               ELSE keyed
                  IN  IF ev.kind = "CursorMoved"
                      THEN UpdateMouseDiff(toggled, ev.position)
                      ELSE [frame |-> toggled, mouse_diff |-> diff]

\* slip of CursorHidden: the cursor state is not looked at
CursorAny(f) == TRUE

\* input::cursor_state() == input::CursorState::Hidden
CursorHidden(f) == f.cursor_state = "Hidden"

\* State::process_window_event: [frame, camera]
ProcessWindowEvent(f, cam, diff, delta, ev) ==
    IF \/ ev.kind = "CloseRequested"
       \/ ev.kind = "KeyboardInput" /\ ev.state = "Pressed" /\ ev.key = "Escape"
    THEN [frame |-> [f EXCEPT !.control_flow = "Exit", !.reconfigured = FALSE], camera |-> cam]
    ELSE IF ev.kind \in {"Resized", "ScaleFactorChanged"}
    THEN [frame |-> Resize(f, ev.size), camera |-> cam]
    ELSE IF ev.kind = "CursorMoved"
    THEN [frame |-> f,
          camera |-> IF CursorHidden(f) THEN UpdateDirection(cam, diff, delta) ELSE cam]
    ELSE [frame |-> f, camera |-> cam]

\* slip of RedrawGuard: the window of the event is not looked at
RedrawGuardAny(window) == TRUE

\* Event::RedrawRequested(window_id) if window_id == state.context.window.id()
RedrawGuard(window) == window = "app"

\* the window events delivered to the loop for a window of this size: keys
\* pressed and released, the cursor at the centre or off it, the window
\* reporting its size again or a size of 0 x 0, the close button
WindowEvents(size) ==
    {[kind |-> "KeyboardInput", key |-> key, state |-> st] :
        key \in {"W", "G"}, st \in {"Pressed", "Released"}}
    \cup {[kind |-> "KeyboardInput", key |-> "Escape", state |-> "Pressed"]}
    \cup {[kind |-> "CursorMoved", position |-> <<size[1] \div 2 + d[1], size[2] \div 2 + d[2]>>] :
            d \in {<<0, 0>>, <<2, 100>>}}
    \cup {[kind |-> k, size |-> new_size] :
            k \in {"Resized", "ScaleFactorChanged"}, new_size \in {size, <<0, 0>>}}
    \cup {[kind |-> "CloseRequested"]}

\* State::new of the editor, the statics of input.rs, and the loop about to run
InitEvent ==
    /\ EditorScene
    /\ compared = None
    /\ frame = [program |-> "editor", control_flow |-> "Poll", size |-> <<800, 600>>,
                surface_size |-> <<800, 600>>, reconfigured |-> FALSE, frames |-> 0,
                cursor_state |-> "Hidden", window_center |-> <<0, 0>>, keys |-> {},
                event |-> [kind |-> "Init", window |-> "app"], calls |-> <<>>,
                uniform |-> None]
    /\ camera = [EditorCamera(<<800, 600>>) EXCEPT !.position = [from |-> @, moves |-> <<>>]]
    /\ mouse_diff = <<0, 0>>
    /\ time_delta = 0
    /\ clip = None

\* Event::WindowEvent of the application window (the editor has no other):
\* update_input_state, then process_window_event
OnWindowEvent(ev, g_released) ==
    LET logged == [frame EXCEPT !.event = [kind |-> ev.kind, window |-> "app"],
                                !.calls = <<>>]
        input == UpdateInputState(logged, mouse_diff, ev, g_released)
        done == ProcessWindowEvent(input.frame, camera, input.mouse_diff, time_delta, ev)
    IN  /\ Running
        /\ (ev.kind = "KeyboardInput" /\ ev.key = "G" /\ ev.state = "Released") => g_released
        /\ Abs(done.camera.yaw) <= MaxYaw
        /\ frame' = done.frame
        /\ camera' = done.camera
        /\ mouse_diff' = input.mouse_diff
        /\ UNCHANGED <<scene_vars, compared, time_delta, clip>>

\* Event::RedrawRequested: for the application window update(), render(), the
\* match on the result and time.delta; nothing for another window.  The
\* instance list is the one of a fixed time: its contents do not enter the loop.
OnRedrawRequested(window, result, delta) ==
    LET set == [models EXCEPT ![2].instances = Some(InstanceList(InstancesPerFrame, 1))]
        done == [m \in 1..Len(set) |-> UpdateModel(set[m], <<m, allocs[m] + 1>>)]
        synced == [m \in 1..Len(set) |-> done[m].model]
        updated == EditorUpdate(camera, frame.keys, time_delta)
        logged == [frame EXCEPT !.event = [kind |-> "RedrawRequested", window |-> window]]
    IN  /\ Running
        /\ frame.frames < MaxEventFrames
        /\ IF RedrawGuard(window)
           THEN /\ models' = synced
                /\ last_sync' = [m \in 1..Len(set) |-> done[m].op]
                /\ allocs' = [m \in 1..Len(set) |->
                                IF done[m].op \in {"create", "grow"} THEN allocs[m] + 1
                                                                       ELSE allocs[m]]
                /\ script_pos' = [m \in 1..Len(set) |->
                                    NextScriptPos(script_pos[m], set[m].instances)]
                /\ render_pass' = IF result \in SurfaceErrors THEN <<>>
                                                               ELSE DrawCommands(synced, 1)
                /\ camera' = updated.camera
                /\ frame' = OnRenderResult([logged EXCEPT !.frames = @ + 1,
                                                          !.calls = <<"update", "render">>,
                                                          !.uniform = updated.uniform],
                                           result)
                /\ time_delta' = delta
           ELSE /\ frame' = [logged EXCEPT !.calls = <<>>]
                /\ UNCHANGED <<render_vars, camera, time_delta>>
        /\ UNCHANGED <<load_vars, legacy_vars, compared, mouse_diff, clip>>

\* Event::MainEventsCleared and UserEvent(RequestRedraw) ask the window for a
\* redraw; every other event does nothing
OnOtherEvent(kind) ==
    /\ Running
    /\ frame' = [frame EXCEPT !.event = [kind |-> kind, window |-> "app"], !.calls = <<>>]
    /\ UNCHANGED <<scene_vars, compared, camera_vars>>

NextEvent ==
    \/ \E ev \in WindowEvents(frame.size), g_released \in BOOLEAN :
          OnWindowEvent(ev, g_released)
    \/ \E window \in {"app", "other"}, result \in {"Ok", "GuiError"}, delta \in {0, 8} :
          OnRedrawRequested(window, result, delta)
    \/ \E kind \in {"MainEventsCleared", "UserEvent"} : OnOtherEvent(kind)

EventSpec == InitEvent /\ [][NextEvent]_vars

(***************************************************************************)
(* Properties of the event loop                                            *)
(***************************************************************************)
RedrawOfApp == [kind |-> "RedrawRequested", window |-> "app"]

\* C26: the handling of a RedrawRequested event of the application window runs
\* update once and then render once: the frame is counted, the uniform is
\* written, the cube's list is synchronised, and the pass binds the buffers as
\* that update left them.  The handling of any other event runs neither: it
\* leaves the models, the buffers, the pass, the uniform, the camera position
\* and the frame time alone.
C26_OneUpdateThenOneRender ==
    [][IF frame'.event = RedrawOfApp
       THEN /\ frame'.calls = <<"update", "render">>
            /\ frame'.frames = frame.frames + 1
            /\ IsSome(frame'.uniform)
            /\ last_sync'[2] \in {"create", "write"}
            /\ allocs'[2] <= allocs[2] + 1
            /\ Len(InstanceBindingsOf(render_pass', 2)) = 1
            /\ InstanceBindingsOf(render_pass', 2)[1].arg.buffer
                   = Unwrap(models'[2].instance_buffer)
            /\ Len(DrawsOf(render_pass', 2)) = 1
       ELSE /\ frame'.calls = <<>>
            /\ frame'.frames = frame.frames
            /\ frame'.uniform = frame.uniform
            /\ camera'.position = camera.position
            /\ UNCHANGED <<render_vars, time_delta>>]_vars

C26_SecondFrameRun ==
    /\ frame.event = RedrawOfApp
    /\ frame.frames = 2
    /\ frame.calls = <<"update", "render">>
    /\ frame.control_flow = "Poll"
    /\ render_pass # <<>>

\* C27: the uniform written in a frame is built from the camera as it was when
\* the frame began, which is the camera position the previous frame ended with
\* (no event between two frames moves the camera); when the frame moves the
\* camera, the uniform does not hold the position after the move.
C27_UniformBeforeMovement ==
    [][IF frame'.frames = frame.frames + 1
       THEN /\ IsSome(frame'.uniform)
            /\ Unwrap(frame'.uniform).view_projection_of = camera
            /\ camera'.position # camera.position =>
                  Unwrap(frame'.uniform).view_projection_of.position # camera'.position
       ELSE camera'.position = camera.position]_vars

C27_UniformBehindTheMove ==
    /\ frame.frames = 2
    /\ IsSome(frame.uniform)
    /\ Len(camera.position.moves) = 1
    /\ Unwrap(frame.uniform).view_projection_of.position.moves = <<>>

C30_ResizeNeverPanics == frame.control_flow # "Panicked"

\* C28: in the editor, whatever number of frames has run, the cube's instance
\* buffer was allocated once, by the first frame, and every later frame wrote it
\* in place; the map has no instance list and no instance buffer and each of its
\* draws has the instance range 0..1.
C28_CubeAllocatedOnceMapNever ==
    frame.program = "editor" =>
        /\ allocs[2] = (IF Len(frame.results) = 0 THEN 0 ELSE 1)
        /\ Len(frame.results) = 1 => last_sync[2] = "create"
        /\ Len(frame.results) > 1 => last_sync[2] = "write"
        /\ Len(frame.results) >= 1 =>
              /\ IsSome(models[2].instance_buffer)
              /\ Unwrap(models[2].instance_buffer).id = <<2, 1>>
              /\ Len(Unwrap(models[2].instance_buffer).contents) = InstancesPerFrame
        /\ allocs[1] = 0
        /\ IsNone(models[1].instances)
        /\ IsNone(models[1].instance_buffer)
        /\ \A k \in 1..Len(DrawsOf(render_pass, 1)) :
              DrawsOf(render_pass, 1)[k].arg.instances = <<0, 1>>

C28_ThreeFramesOneAllocation ==
    /\ frame.program = "editor"
    /\ Len(frame.results) = 3
    /\ frame.results = <<"Ok", "Ok", "Ok">>
    /\ allocs = <<0, 1>>
    /\ last_sync[2] = "write"
    /\ Len(DrawsOf(render_pass, 1)) = 2

====
